---------------------------- MODULE Spec2Model ----------------------------
(***************************************************************************)
(* Model of the Herbario Digital pipeline (herbario.py, and the earlier    *)
(* herbario-getter.py): the resumable sequence get_all -> filter_species   *)
(* -> get_accepted_species -> simplify_data, with the artifacts it leaves  *)
(* under data/ and data/temp/.                                             *)
(***************************************************************************)
EXTENDS Integers, Sequences, FiniteSets, TLC

(***************************************************************************)
(* Bounds of the model.                                                    *)
(***************************************************************************)
\* list pages 1..MaxPage can carry data; page MaxPage+1 stands for every
\* page beyond them
MaxPage == 2
\* pipeline() invocations in one behaviour
MaxRuns == 2
\* longest input list of the specifications that enumerate a function's inputs
MaxLen == 3

(***************************************************************************)
(* Python values.                                                          *)
(***************************************************************************)
\* dict.get("id") of an entry without id: None.  Ids of the API are >= 0.
NoId == -1
\* dict.get("scientific_name") of an entry without name: None
NoName == "<None>"

\* `not x` for an id: None and 0 are falsy
FalsyId(id) == id = NoId \/ id = 0
\* `not x` for a name: None and "" are falsy
FalsyName(name) == name = NoName \/ name = ""

Last(s) == s[Len(s)]
Front(s) == SubSeq(s, 1, Len(s) - 1)

(***************************************************************************)
(* The remote API and the reference checklist, as far as the model draws   *)
(* them.                                                                   *)
(***************************************************************************)
\* entries of the species_list endpoint: id, scientific_name and more
Entry(id, name) == [id |-> id, scientific_name |-> name, family |-> "f"]

\* the `results` arrays a non-empty list page may carry
PageChoices ==
    { << Entry(1, "Nothofagus obliqua"), Entry(2, "nothofagus obliqua") >>,
      << Entry(NoId, "Quillaja saponaria"), Entry(3, "Quillaja saponaria") >>,
      << Entry(0, "Nothofagus obliqua") >> }

\* accepted_full_name column of RasgosCL_spp_names_clean.csv
RemoteChecklist == << "Nothofagus obliqua", "Quillaja saponaria" >>

\* the species detail document the API holds for an id
DetailOf(id) ==
    [ id |-> id,
      scientific_name |-> IF id = 3 THEN "Quillaja saponaria" ELSE "Nothofagus obliqua",
      habit |-> "Tree",
      status |-> "Native",
      conservation_state |->
          IF id = 1 THEN << "Endangered (EN)", "Vulnerable (VU)" >>
          ELSE IF id = 3 THEN << >>
          ELSE << "Least Concern (LC)" >>,
      region |->
          IF id = 1 THEN << "Maule Region", "Bio Bio Region" >>
          ELSE IF id = 3 THEN << "Valparaiso Region" >>
          ELSE << >> ]

(***************************************************************************)
(* get_all: one entry of a page reduced to a stub.                         *)
(***************************************************************************)
stub_of(specie) == [id |-> specie.id, scientific_name |-> specie.scientific_name]

stubs_of(results) == [i \in 1..Len(results) |-> stub_of(results[i])]

(***************************************************************************)
(* filter_species of herbario.py.                                          *)
(***************************************************************************)
\* `scientific_name in name_list`: == against each entry of the list
InList(x, list) == \E i \in 1..Len(list) : list[i] = x

RECURSIVE filter_loop(_, _, _)
filter_loop(herbario_species, name_list, accepted_species) ==
    IF herbario_species = << >> THEN accepted_species
    ELSE LET specie == Head(herbario_species)
             scientific_name == specie.scientific_name
         IN  filter_loop(
                 Tail(herbario_species), name_list,
                 IF ~FalsyName(scientific_name) /\ InList(scientific_name, name_list)
                 THEN Append(accepted_species,
                             [id |-> specie.id, scientific_name |-> scientific_name])
                 ELSE accepted_species)

filter_species(herbario_species, name_list) ==
    filter_loop(herbario_species, name_list, << >>)

(***************************************************************************)
(* filter_species of herbario-getter.py: the membership test is on the     *)
(* stub itself, a dict, against a list of str.                             *)
(***************************************************************************)
\* dict == str is False in Python, whatever the dict holds
DictEqStr(specie, name) == FALSE

DictInList(specie, name_list) ==
    \E i \in 1..Len(name_list) : DictEqStr(specie, name_list[i])

RECURSIVE getter_filter_loop(_, _, _)
getter_filter_loop(herbario_species, name_list, accepted_species) ==
    IF herbario_species = << >> THEN accepted_species
    ELSE LET specie == Head(herbario_species)
         IN  getter_filter_loop(
                 Tail(herbario_species), name_list,
                 IF DictInList(specie, name_list)
                 THEN Append(accepted_species,
                             [herbario_id |-> specie.id,
                              scientific_name |-> specie.scientific_name])
                 ELSE accepted_species)

getter_filter_species(herbario_species, name_list) ==
    getter_filter_loop(herbario_species, name_list, << >>)

(***************************************************************************)
(* simplify_data.                                                          *)
(***************************************************************************)
conservation_states ==
    << "Not Evaluated (NE)",
       "Data Deficient (DD)",
       "Least Concern (LC)",
       "Conservation Dependent (CD)",
       "Near Threatened (NT)",
       "Almost Threatened (NT)",
       "Vulnerable (VU)",
       "Endangered (EN)",
       "Critically Endangered (CR)",
       "Extinct in the Wild (EW)",
       "Extinct (EX)" >>

\* raw API name, canonical column name
regions ==
    << << "Araucania Region", "Araucanía" >>,
       << "Maule Region", "Maule" >>,
       << "Atacama Region", "Atacama" >>,
       << "Antofagasta Region", "Antofagasta" >>,
       << "Juan Fernández Archipelago", "Juan Fernández" >>,
       << "Tarapaca Region", "Tarapacá" >>,
       << "Santiago Metropolitan Region", "Metropolitana" >>,
       << "Liberator General Bernardo O'Higgins Region", "Libertador Bernardo O'Higgins" >>,
       << "Arica and Parinacota Region", "Arica y Parinacota" >>,
       << "River Region", "Los Ríos" >>,
       << "Ñuble Region", "Ñuble" >>,
       << "Coquimbo Region", "Coquimbo" >>,
       << "Los Lagos Region", "Los Lagos" >>,
       << "Magallanes and Chilean Antarctic Region", "Magallanes" >>,
       << "Bio Bio Region", "Bío-Bío" >>,
       << "Valparaiso Region", "Valparaíso" >>,
       << "Region of Aysén del General Carlos Ibáñez del Campo", "Aysén" >> >>

\* conservation_states.index(state): the first position holding state
index(state) ==
    CHOOSE i \in 1..Len(conservation_states) :
        /\ conservation_states[i] = state
        /\ \A j \in 1..(i - 1) : conservation_states[j] # state

\* sorted(..., key=index) is stable: insert after the entries whose key is <=
RECURSIVE insert_sorted(_, _)
insert_sorted(state, sorted_states) ==
    IF sorted_states = << >> THEN << state >>
    ELSE IF index(state) < index(Head(sorted_states))
         THEN << state >> \o sorted_states
         ELSE << Head(sorted_states) >> \o insert_sorted(state, Tail(sorted_states))

RECURSIVE sorted(_)
sorted(pre_conservation_state) ==
    IF pre_conservation_state = << >> THEN << >>
    ELSE insert_sorted(Last(pre_conservation_state),
                       sorted(Front(pre_conservation_state)))

\* the list as reported, not sorted: its first entry
simplified_conservation_state_unsorted(pre_conservation_state) ==
    IF Len(pre_conservation_state) >= 1
    THEN pre_conservation_state[1]
    ELSE conservation_states[1]

\* the conservation_state column of one row
simplified_conservation_state(pre_conservation_state) ==
    IF Len(pre_conservation_state) >= 1
    THEN sorted(pre_conservation_state)[1]
    ELSE conservation_states[1]

\* the 0/1 column of one canonical region
region_flag(raw_region, pre_regions) ==
    IF InList(raw_region, pre_regions) THEN 1 ELSE 0

ScalarColumns == { "id", "scientific_name", "habit", "status", "conservation_state" }
RegionColumns == { regions[i][2] : i \in 1..Len(regions) }
RawOf(common_region) ==
    (CHOOSE i \in 1..Len(regions) : regions[i][2] = common_region)

\* one row of the table: the dict simplified_specie, keyed by column name
simplified_specie(specie) ==
    [ column \in ScalarColumns \cup RegionColumns |->
        IF column = "id" THEN specie.id
        ELSE IF column = "scientific_name" THEN specie.scientific_name
        ELSE IF column = "habit" THEN specie.habit
        ELSE IF column = "status" THEN specie.status
        ELSE IF column = "conservation_state"
             THEN simplified_conservation_state(specie.conservation_state)
        ELSE region_flag(regions[RawOf(column)][1], specie.region) ]

simplify_data(herbario_species) ==
    [i \in 1..Len(herbario_species) |-> simplified_specie(herbario_species[i])]


\* pd.DataFrame(simplified).columns: the keys of the row dicts; a frame built
\* from the empty list has no column at all
DataFrame_columns(simplified) ==
    UNION { DOMAIN simplified[i] : i \in 1..Len(simplified) }

(***************************************************************************)
(* Files.  A file is absent, or holds `data`; while it is being written,   *)
(* and after a write that did not finish, only a proper prefix of the text *)
(* of `data` is on disk (whole = FALSE).                                   *)
(***************************************************************************)
Artifacts == { "all", "filtered", "accepted", "final" }
TempArtifacts == { "all", "filtered", "accepted" }

NoFile == [exists |-> FALSE, whole |-> FALSE, data |-> << >>]
\* open(filepath, "w"): the file exists from here on, truncated
OpenedFile(data) == [exists |-> TRUE, whole |-> FALSE, data |-> data]
\* the write ran to its end and the file was closed
WrittenFile(data) == [exists |-> TRUE, whole |-> TRUE, data |-> data]

\* pd.read_csv of a table written by DataFrame.to_csv: the index that to_csv
\* wrote comes back as one more column, "Unnamed: 0"
read_csv_row(row, i) ==
    [ column \in DOMAIN row \cup { "Unnamed: 0" } |->
        IF column = "Unnamed: 0" THEN i - 1 ELSE row[column] ]

read_csv(data) == [i \in 1..Len(data) |-> read_csv_row(data[i], i)]

VARIABLES
    pc,                         \* where pipeline() is; "idle" before the first run
    run,                        \* pipeline() invocations started so far
    clean_temp,                 \* argument of the running pipeline()
    start_at,                   \* argument of get_all
    fs,                         \* the four artifacts on disk
    names_csv,                  \* data/species_names.csv
    page,                       \* get_all: page
    res,                        \* get_all: the response being handled
    species_list,               \* get_all / get_accepted_species: species_list
    idx,                        \* get_accepted_species: stubs handled so far
    herbario_species_all,
    accepted_names,
    herbario_species_filtered,
    herbario_species_accepted,
    herbario_species,           \* the table pipeline() returns
    \* history of the current run
    start_fs,                   \* fs when the run started
    resume,                     \* the artifact the probe chose, "none" if none,
                                \* "?" before the probe
    trace,                      \* stages called in this run, in order
    list_log,                   \* list requests of this run and their answers
    detail_log,                 \* detail requests of this run and their answers
    checklist_requests,         \* checklist downloads of this run
    failed_saves,               \* artifacts whose save_temp failed in this run
    error,                      \* what the run raised, "" if nothing
    \* history of the run before
    last_end,                   \* how it ended: "none", "done", "raised", "killed"
    last_failed_saves           \* its failed_saves

locals == << page, res, species_list, idx, herbario_species_all, accepted_names,
             herbario_species_filtered, herbario_species_accepted, herbario_species >>
history == << start_fs, resume, trace, list_log, detail_log, checklist_requests,
              failed_saves, error, last_end, last_failed_saves >>
vars == << pc, run, clean_temp, start_at, fs, names_csv, locals, history >>

NoRes == [kind |-> "none", results |-> << >>]

Running == pc \notin { "idle", "done", "raised", "killed" }

(***************************************************************************)
(* Initial states: any subset of the four artifacts is on disk (the others *)
(* deleted or never written), each whole, and the checklist is cached or   *)
(* not.                                                                    *)
(***************************************************************************)
\* what a complete earlier run left: the stubs of one page, those of them on
\* the checklist, their documents, and the table of these
InitAll == stubs_of(<< Entry(1, "Nothofagus obliqua"), Entry(2, "nothofagus obliqua"),
                       Entry(3, "Quillaja saponaria") >>)
InitFiltered == filter_species(InitAll, RemoteChecklist)
InitAccepted == [i \in 1..Len(InitFiltered) |-> DetailOf(InitFiltered[i].id)]
InitFinal == simplify_data(InitAccepted)

InitData(a) ==
    CASE a = "all" -> InitAll
      [] a = "filtered" -> InitFiltered
      [] a = "accepted" -> InitAccepted
      [] a = "final" -> InitFinal

InitLocals ==
    /\ page = 0
    /\ res = NoRes
    /\ species_list = << >>
    /\ idx = 0
    /\ herbario_species_all = << >>
    /\ accepted_names = << >>
    /\ herbario_species_filtered = << >>
    /\ herbario_species_accepted = << >>
    /\ herbario_species = << >>

InitHistory ==
    /\ start_fs = fs
    /\ resume = "?"
    /\ trace = << >>
    /\ list_log = << >>
    /\ detail_log = << >>
    /\ checklist_requests = 0
    /\ failed_saves = { }
    /\ error = ""
    /\ last_end = "none"
    /\ last_failed_saves = { }

Init ==
    /\ pc = "idle"
    /\ run = 0
    /\ clean_temp = FALSE
    /\ start_at = 1
    /\ \E present \in SUBSET Artifacts :
          fs = [a \in Artifacts |->
                    IF a \in present THEN WrittenFile(InitData(a)) ELSE NoFile]
    /\ \E cached \in BOOLEAN :
          names_csv = IF cached THEN WrittenFile(RemoteChecklist) ELSE NoFile
    /\ InitLocals
    /\ InitHistory


(***************************************************************************)
(* pipeline(): prepare() and the probe of the artifacts.                   *)
(***************************************************************************)
ResetLocals ==
    /\ page' = 0
    /\ res' = NoRes
    /\ species_list' = << >>
    /\ idx' = 0
    /\ herbario_species_all' = << >>
    /\ accepted_names' = << >>
    /\ herbario_species_filtered' = << >>
    /\ herbario_species_accepted' = << >>
    /\ herbario_species' = << >>

\* prepare(): the checklist is downloaded on every call; a failed download is
\* caught and leaves data/species_names.csv as it was
prepare(download_ok) ==
    /\ names_csv' = IF download_ok THEN WrittenFile(RemoteChecklist) ELSE names_csv
    /\ checklist_requests' = 1

\* a new process calls pipeline(clean_temp = ct)
Start ==
    /\ pc \in { "idle", "done", "raised", "killed" }
    /\ run < MaxRuns
    /\ run' = run + 1
    /\ \E ct \in BOOLEAN : clean_temp' = ct
    /\ \E download_ok \in BOOLEAN : prepare(download_ok)
    /\ ResetLocals
    /\ start_fs' = fs
    /\ resume' = "?"
    /\ trace' = << >>
    /\ list_log' = << >>
    /\ detail_log' = << >>
    /\ failed_saves' = { }
    /\ error' = ""
    /\ last_end' = IF pc = "idle" THEN "none" ELSE pc
    /\ last_failed_saves' = failed_saves
    /\ pc' = "probe"
    /\ UNCHANGED << start_at, fs >>

\* the chain with the filtered checkpoint probed before the accepted one
Probed_filtered_first(files) ==
    IF files["final"].exists THEN "final"
    ELSE IF files["filtered"].exists THEN "filtered"
    ELSE IF files["accepted"].exists THEN "accepted"
    ELSE IF files["all"].exists THEN "all"
    ELSE "none"

\* the chain turned round: the least advanced artifact probed first
Probed_all_first(files) ==
    IF files["all"].exists THEN "all"
    ELSE IF files["filtered"].exists THEN "filtered"
    ELSE IF files["accepted"].exists THEN "accepted"
    ELSE IF files["final"].exists THEN "final"
    ELSE "none"

\* the if/elif chain of os.path.exists
Probed(files) ==
    IF files["final"].exists THEN "final"
    ELSE IF files["accepted"].exists THEN "accepted"
    ELSE IF files["filtered"].exists THEN "filtered"
    ELSE IF files["all"].exists THEN "all"
    ELSE "none"

Raise(what) ==
    /\ pc' = "raised"
    /\ error' = what

\* "Reusing last species file": pd.read_csv(species_path).  A file cut short
\* reads as the rows that are there, or does not parse.
ProbeFinal ==
    /\ pc = "probe"
    /\ Probed(fs) = "final"
    /\ resume' = "final"
    /\ IF fs["final"].whole
       THEN /\ herbario_species' = read_csv(fs["final"].data)
            /\ pc' = "cleanup"
            /\ UNCHANGED error
       ELSE \/ Raise("load") /\ UNCHANGED herbario_species
            \/ \E k \in 0..(Len(fs["final"].data) - 1) :
                  /\ herbario_species' = read_csv(SubSeq(fs["final"].data, 1, k))
                  /\ pc' = "cleanup"
                  /\ UNCHANGED error
    /\ UNCHANGED << run, clean_temp, start_at, fs, names_csv, page, res, species_list, idx,
                    herbario_species_all, accepted_names, herbario_species_filtered,
                    herbario_species_accepted, start_fs, trace, list_log, detail_log,
                    checklist_requests, failed_saves, last_end, last_failed_saves >>

\* json.load of a checkpoint: the data, or JSONDecodeError on a file cut short
ProbeAccepted ==
    /\ pc = "probe"
    /\ Probed(fs) = "accepted"
    /\ resume' = "accepted"
    /\ IF fs["accepted"].whole
       THEN /\ herbario_species_accepted' = fs["accepted"].data
            /\ pc' = "simplify_data"
            /\ UNCHANGED error
       ELSE Raise("load") /\ UNCHANGED herbario_species_accepted
    /\ UNCHANGED << run, clean_temp, start_at, fs, names_csv, page, res, species_list, idx,
                    herbario_species_all, accepted_names, herbario_species_filtered,
                    herbario_species, start_fs, trace, list_log, detail_log,
                    checklist_requests, failed_saves, last_end, last_failed_saves >>

ProbeFiltered ==
    /\ pc = "probe"
    /\ Probed(fs) = "filtered"
    /\ resume' = "filtered"
    /\ IF fs["filtered"].whole
       THEN /\ herbario_species_filtered' = fs["filtered"].data
            /\ pc' = "get_accepted_species"
            /\ UNCHANGED error
       ELSE Raise("load") /\ UNCHANGED herbario_species_filtered
    /\ UNCHANGED << run, clean_temp, start_at, fs, names_csv, page, res, species_list, idx,
                    herbario_species_all, accepted_names, herbario_species_accepted,
                    herbario_species, start_fs, trace, list_log, detail_log,
                    checklist_requests, failed_saves, last_end, last_failed_saves >>

ProbeAll ==
    /\ pc = "probe"
    /\ Probed(fs) = "all"
    /\ resume' = "all"
    /\ IF fs["all"].whole
       THEN /\ herbario_species_all' = fs["all"].data
            /\ pc' = "get_accepted_names"
            /\ UNCHANGED error
       ELSE Raise("load") /\ UNCHANGED herbario_species_all
    /\ UNCHANGED << run, clean_temp, start_at, fs, names_csv, page, res, species_list, idx,
                    accepted_names, herbario_species_filtered, herbario_species_accepted,
                    herbario_species, start_fs, trace, list_log, detail_log,
                    checklist_requests, failed_saves, last_end, last_failed_saves >>

\* "No file to reuse, downloading from source"
ProbeNone ==
    /\ pc = "probe"
    /\ Probed(fs) = "none"
    /\ resume' = "none"
    /\ pc' = "get_all"
    /\ UNCHANGED << run, clean_temp, start_at, fs, names_csv, locals, start_fs, trace, list_log,
                    detail_log, checklist_requests, failed_saves, error, last_end,
                    last_failed_saves >>


(***************************************************************************)
(* get_all(start_at).                                                      *)
(***************************************************************************)
Response(kind, results) == [kind |-> kind, results |-> results]

\* what the API may answer to the list request for page p: no connection, a
\* status other than 200, a body that is not JSON, a JSON body with `results`
\* absent, or with the array `results`, empty or not
ListResponses(p) ==
    { Response(kind, << >>) : kind \in { "conn", "non200", "decode", "ok_absent", "ok" } }
    \cup (IF p <= MaxPage THEN { Response("ok", results) : results \in PageChoices }
          ELSE { })

\* page += 1; every page beyond MaxPage is the page MaxPage + 1 of the model
next_page(p) == IF p <= MaxPage THEN p + 1 ELSE p

\* a loop that ends on a status other than 200
get_all_iterates_on_data(r) ==
    r.kind = "ok" /\ r.results # << >>

\* a loop that goes on to the next page after a connection failure
get_all_iterates_past_conn(r) ==
    \/ r.kind \in { "non200", "conn" }
    \/ r.kind = "ok" /\ r.results # << >>

\* the branches of the loop body that reach the next iteration: `continue` on
\* a status other than 200, and the end of the body after extend
get_all_iterates(r) ==
    \/ r.kind = "non200"
    \/ r.kind = "ok" /\ r.results # << >>

\* the stubs of a page put in front of the list instead of behind it
get_all_extend_in_front(list, r) ==
    IF r.kind = "ok" /\ r.results # << >> THEN stubs_of(r.results) \o list ELSE list

\* species_list at the end of the loop body
get_all_extend(list, r) ==
    IF r.kind = "ok" /\ r.results # << >> THEN list \o stubs_of(r.results) ELSE list

GetAllEnter ==
    /\ pc = "get_all"
    /\ page' = start_at - 1
    /\ species_list' = << >>
    /\ trace' = Append(trace, "get_all")
    /\ pc' = "get_all_request"
    /\ UNCHANGED << run, clean_temp, start_at, fs, names_csv, res, idx,
                    herbario_species_all, accepted_names, herbario_species_filtered,
                    herbario_species_accepted, herbario_species, start_fs, resume,
                    list_log, detail_log, checklist_requests, failed_saves, error,
                    last_end, last_failed_saves >>

\* page += 1; res = req.get(url)
GetAllRequest ==
    /\ pc = "get_all_request"
    /\ page' = next_page(page)
    /\ \E r \in ListResponses(page') :
          /\ res' = r
          /\ list_log' =
                LET entry == [page |-> page', kind |-> r.kind, results |-> r.results]
                IN  IF page' = page THEN Append(Front(list_log), entry)
                    ELSE Append(list_log, entry)
    /\ pc' = "get_all_response"
    /\ UNCHANGED << run, clean_temp, start_at, fs, names_csv, species_list, idx,
                    herbario_species_all, accepted_names, herbario_species_filtered,
                    herbario_species_accepted, herbario_species, start_fs, resume,
                    trace, detail_log, checklist_requests, failed_saves, error,
                    last_end, last_failed_saves >>

\* get_all returning straight into the filter stage, its list not saved
GetAllResponse_unsaved ==
    /\ pc = "get_all_response"
    /\ species_list' = get_all_extend(species_list, res)
    /\ res' = NoRes
    /\ IF get_all_iterates(res)
       THEN /\ pc' = "get_all_request"
            /\ UNCHANGED herbario_species_all
       ELSE /\ pc' = "get_accepted_names"
            /\ herbario_species_all' = species_list'
    /\ UNCHANGED << run, clean_temp, start_at, fs, names_csv, page, idx,
                    accepted_names, herbario_species_filtered,
                    herbario_species_accepted, herbario_species, history >>

\* the rest of the loop body, and `return species_list` when the loop ends
GetAllResponse ==
    /\ pc = "get_all_response"
    /\ species_list' = get_all_extend(species_list, res)
    /\ res' = NoRes
    /\ IF get_all_iterates(res)
       THEN /\ pc' = "get_all_request"
            /\ UNCHANGED herbario_species_all
       ELSE /\ pc' = "save_all"
            /\ herbario_species_all' = species_list'
    /\ UNCHANGED << run, clean_temp, start_at, fs, names_csv, page, idx,
                    accepted_names, herbario_species_filtered,
                    herbario_species_accepted, herbario_species, history >>

(***************************************************************************)
(* save_temp(filename, data) and DataFrame.to_csv(species_path).           *)
(***************************************************************************)
\* open(filepath, "w")
SaveOpen(a, data) ==
    /\ pc = "save_" \o a
    /\ fs' = [fs EXCEPT ![a] = OpenedFile(data)]
    /\ pc' = "dump_" \o a
    /\ UNCHANGED << run, clean_temp, start_at, names_csv, locals, history >>

\* save_temp without its except clauses: the failure of json.dump reaches
\* pipeline() and its caller
SaveDump_uncaught(a, data, then) ==
    /\ pc = "dump_" \o a
    /\ \E serializable \in BOOLEAN :
          IF serializable
          THEN /\ fs' = [fs EXCEPT ![a] = WrittenFile(data)]
               /\ pc' = then
               /\ UNCHANGED << failed_saves, error >>
          ELSE /\ failed_saves' = failed_saves \cup { a }
               /\ Raise("save")
               /\ UNCHANGED fs
    /\ UNCHANGED << run, clean_temp, start_at, names_csv, locals, start_fs, resume,
                    trace, list_log, detail_log, checklist_requests, last_end,
                    last_failed_saves >>

\* json.dump(data, file), then `return filepath` whether or not it raised
\* ValueError or TypeError
SaveDump(a, data, then) ==
    /\ pc = "dump_" \o a
    /\ \E serializable \in BOOLEAN :
          IF serializable
          THEN /\ fs' = [fs EXCEPT ![a] = WrittenFile(data)]
               /\ UNCHANGED failed_saves
          ELSE /\ failed_saves' = failed_saves \cup { a }
               /\ UNCHANGED fs
    /\ pc' = then
    /\ UNCHANGED << run, clean_temp, start_at, names_csv, locals, start_fs, resume,
                    trace, list_log, detail_log, checklist_requests, error, last_end,
                    last_failed_saves >>

SaveAllOpen == SaveOpen("all", herbario_species_all)
SaveAllDump == SaveDump("all", herbario_species_all, "get_accepted_names")
SaveFilteredOpen == SaveOpen("filtered", herbario_species_filtered)
SaveFilteredDump == SaveDump("filtered", herbario_species_filtered, "get_accepted_species")
SaveAcceptedOpen == SaveOpen("accepted", herbario_species_accepted)
SaveAcceptedDump == SaveDump("accepted", herbario_species_accepted, "simplify_data")

ToCsvOpen ==
    /\ pc = "to_csv"
    /\ fs' = [fs EXCEPT !["final"] = OpenedFile(herbario_species)]
    /\ pc' = "to_csv_write"
    /\ UNCHANGED << run, clean_temp, start_at, names_csv, locals, history >>

ToCsvWrite ==
    /\ pc = "to_csv_write"
    /\ fs' = [fs EXCEPT !["final"] = WrittenFile(herbario_species)]
    /\ pc' = "cleanup"
    /\ UNCHANGED << run, clean_temp, start_at, names_csv, locals, history >>

(***************************************************************************)
(* get_accepted_names and filter_species, as pipeline() calls them.        *)
(***************************************************************************)
\* the guard as it was meant: a missing file is reported and no name returned
GetAcceptedNames_guarded ==
    /\ pc = "get_accepted_names"
    /\ accepted_names' = IF names_csv.exists THEN names_csv.data ELSE << >>
    /\ pc' = "filter_species"
    /\ UNCHANGED << run, clean_temp, start_at, fs, names_csv, page, res, species_list,
                    idx, herbario_species_all, herbario_species_filtered,
                    herbario_species_accepted, herbario_species, start_fs, resume,
                    trace, list_log, detail_log, checklist_requests, failed_saves,
                    error, last_end, last_failed_saves >>

\* `if not os.path.exists:` tests the function object and never holds, so the
\* file is read whether it is there or not
GetAcceptedNames ==
    /\ pc = "get_accepted_names"
    /\ IF names_csv.exists
       THEN /\ accepted_names' = names_csv.data
            /\ pc' = "filter_species"
            /\ UNCHANGED error
       ELSE Raise("names") /\ UNCHANGED accepted_names
    /\ UNCHANGED << run, clean_temp, start_at, fs, names_csv, page, res, species_list,
                    idx, herbario_species_all, herbario_species_filtered,
                    herbario_species_accepted, herbario_species, start_fs, resume,
                    trace, list_log, detail_log, checklist_requests, failed_saves,
                    last_end, last_failed_saves >>

FilterSpecies ==
    /\ pc = "filter_species"
    /\ herbario_species_filtered' = filter_species(herbario_species_all, accepted_names)
    /\ trace' = Append(trace, "filter_species")
    /\ pc' = "save_filtered"
    /\ UNCHANGED << run, clean_temp, start_at, fs, names_csv, page, res, species_list,
                    idx, herbario_species_all, accepted_names,
                    herbario_species_accepted, herbario_species, start_fs, resume,
                    list_log, detail_log, checklist_requests, failed_saves, error,
                    last_end, last_failed_saves >>


(***************************************************************************)
(* get_accepted_species(herbario_species_filtered).                        *)
(***************************************************************************)
\* what the API may answer to a detail request: no connection, a status for
\* which res.ok is false, a body that is not JSON, or the document
DetailKinds == { "conn", "not_ok", "decode", "ok" }

\* `break` instead of `continue` on a status that is not ok
fetch_breaks_on_status(kind) == kind \in { "conn", "decode", "not_ok" }

\* `break` on ConnectionError and on JSONDecodeError
fetch_breaks(kind) == kind \in { "conn", "decode" }

\* species_list after the request for id was answered
fetch_append(list, id, kind) ==
    IF kind = "ok" THEN Append(list, DetailOf(id)) ELSE list

GetAcceptedSpeciesEnter ==
    /\ pc = "get_accepted_species"
    /\ species_list' = << >>
    /\ idx' = 0
    /\ trace' = Append(trace, "get_accepted_species")
    /\ pc' = "fetch"
    /\ UNCHANGED << run, clean_temp, start_at, fs, names_csv, page, res,
                    herbario_species_all, accepted_names, herbario_species_filtered,
                    herbario_species_accepted, herbario_species, start_fs, resume,
                    list_log, detail_log, checklist_requests, failed_saves, error,
                    last_end, last_failed_saves >>

\* `if not id: ... continue`
FetchSkip ==
    /\ pc = "fetch"
    /\ idx < Len(herbario_species_filtered)
    /\ FalsyId(herbario_species_filtered[idx + 1].id)
    /\ idx' = idx + 1
    /\ UNCHANGED << pc, run, clean_temp, start_at, fs, names_csv, page, res,
                    species_list, herbario_species_all, accepted_names,
                    herbario_species_filtered, herbario_species_accepted,
                    herbario_species, history >>

\* res = req.get(url) and the rest of the loop body
FetchRequest ==
    /\ pc = "fetch"
    /\ idx < Len(herbario_species_filtered)
    /\ ~FalsyId(herbario_species_filtered[idx + 1].id)
    /\ \E kind \in DetailKinds :
          LET id == herbario_species_filtered[idx + 1].id
          IN  /\ detail_log' = Append(detail_log, [pos |-> idx + 1, id |-> id, kind |-> kind])
              /\ species_list' = fetch_append(species_list, id, kind)
              /\ IF fetch_breaks(kind)
                 THEN /\ herbario_species_accepted' = species_list'
                      /\ pc' = "save_accepted"
                      /\ UNCHANGED idx
                 ELSE /\ idx' = idx + 1
                      /\ UNCHANGED << pc, herbario_species_accepted >>
    /\ UNCHANGED << run, clean_temp, start_at, fs, names_csv, page, res,
                    herbario_species_all, accepted_names, herbario_species_filtered,
                    herbario_species, start_fs, resume, trace, list_log,
                    checklist_requests, failed_saves, error, last_end,
                    last_failed_saves >>

\* the for loop is exhausted: return species_list
FetchReturn ==
    /\ pc = "fetch"
    /\ idx = Len(herbario_species_filtered)
    /\ herbario_species_accepted' = species_list
    /\ pc' = "save_accepted"
    /\ UNCHANGED << run, clean_temp, start_at, fs, names_csv, page, res, species_list,
                    idx, herbario_species_all, accepted_names,
                    herbario_species_filtered, herbario_species, history >>

(***************************************************************************)
(* simplify_data as pipeline() calls it, and the end of pipeline().        *)
(***************************************************************************)
SimplifyData ==
    /\ pc = "simplify_data"
    /\ herbario_species' = simplify_data(herbario_species_accepted)
    /\ trace' = Append(trace, "simplify_data")
    /\ pc' = "to_csv"
    /\ UNCHANGED << run, clean_temp, start_at, fs, names_csv, page, res, species_list,
                    idx, herbario_species_all, accepted_names,
                    herbario_species_filtered, herbario_species_accepted, start_fs,
                    resume, list_log, detail_log, checklist_requests, failed_saves,
                    error, last_end, last_failed_saves >>

\* a purge that takes the final table along with data/temp
purge_all(files) == [a \in Artifacts |-> NoFile]

\* os.remove of every file of data/temp
purge_temp(files) == [a \in Artifacts |-> IF a \in TempArtifacts THEN NoFile ELSE files[a]]

\* clean_empty_logs() touches the logs only; then the purge, then the return
Cleanup ==
    /\ pc = "cleanup"
    /\ fs' = IF clean_temp THEN purge_temp(fs) ELSE fs
    /\ pc' = "done"
    /\ UNCHANGED << run, clean_temp, start_at, names_csv, locals, history >>

\* the process is terminated: what it held in memory is gone, the files stay
Kill ==
    /\ Running
    /\ pc' = "killed"
    /\ ResetLocals
    /\ UNCHANGED << run, clean_temp, start_at, fs, names_csv, history >>

Probe == ProbeFinal \/ ProbeAccepted \/ ProbeFiltered \/ ProbeAll \/ ProbeNone

GetAll == GetAllEnter \/ GetAllRequest \/ GetAllResponse

GetAcceptedSpecies == GetAcceptedSpeciesEnter \/ FetchSkip \/ FetchRequest \/ FetchReturn

\* the steps of pipeline() itself
Step ==
    \/ ProbeFinal \/ ProbeAccepted \/ ProbeFiltered \/ ProbeAll \/ ProbeNone
    \/ GetAllEnter \/ GetAllRequest \/ GetAllResponse
    \/ SaveAllOpen \/ SaveAllDump
    \/ GetAcceptedNames
    \/ FilterSpecies
    \/ SaveFilteredOpen \/ SaveFilteredDump
    \/ GetAcceptedSpeciesEnter \/ FetchSkip \/ FetchRequest \/ FetchReturn
    \/ SaveAcceptedOpen \/ SaveAcceptedDump
    \/ SimplifyData
    \/ ToCsvOpen \/ ToCsvWrite
    \/ Cleanup

Next == Start \/ Step \/ Kill

Spec == Init /\ [][Next]_vars


\* a run that nothing terminates from outside: each step of pipeline() that
\* can be taken is taken, a further invocation may or may not follow
NextRun == Start \/ Step

FairSpec == Init /\ [][NextRun]_vars /\ WF_vars(Step)

(***************************************************************************)
(* Specifications that call one function on enumerated inputs.             *)
(***************************************************************************)
RECURSIVE SeqsUpTo(_, _)
SeqsUpTo(S, n) ==
    IF n = 0 THEN { << >> }
    ELSE LET shorter == SeqsUpTo(S, n - 1)
         IN  shorter \cup { Append(q, x) : q \in shorter, x \in S }

Stub(id, name) == [id |-> id, scientific_name |-> name]

\* stubs as a checkpoint may hold them: with and without id and name, and names
\* that differ from a checklist name by case or by a blank
StubChoices ==
    { Stub(1, "Nothofagus obliqua"), Stub(2, "nothofagus obliqua"),
      Stub(NoId, "Quillaja saponaria"), Stub(0, "Nothofagus obliqua "),
      Stub(3, NoName) }

NameListChoices == { RemoteChecklist, << "Quillaja saponaria" >>, << >> }

InitCall(at, sa, all, names, filtered, accepted) ==
    /\ pc = at
    /\ run = 1
    /\ clean_temp = FALSE
    /\ start_at = sa
    /\ fs = [a \in Artifacts |-> NoFile]
    /\ names_csv = WrittenFile(RemoteChecklist)
    /\ page = 0
    /\ res = NoRes
    /\ species_list = << >>
    /\ idx = 0
    /\ herbario_species_all = all
    /\ accepted_names = names
    /\ herbario_species_filtered = filtered
    /\ herbario_species_accepted = accepted
    /\ herbario_species = << >>
    /\ InitHistory

\* get_all(start_at) for every start page of the model
GetAllInit ==
    \E sa \in 1..(MaxPage + 1) : InitCall("get_all", sa, << >>, << >>, << >>, << >>)

GetAllSpec == GetAllInit /\ [][GetAll]_vars

\* main() of herbario-getter.py: filter_species(herbario_species_all, accepted_names)
GetterFilterSpecies ==
    /\ pc = "getter_filter_species"
    /\ herbario_species_filtered' =
          getter_filter_species(herbario_species_all, accepted_names)
    /\ trace' = Append(trace, "filter_species")
    /\ pc' = "getter_save_filtered"
    /\ UNCHANGED << run, clean_temp, start_at, fs, names_csv, page, res, species_list,
                    idx, herbario_species_all, accepted_names,
                    herbario_species_accepted, herbario_species, start_fs, resume,
                    list_log, detail_log, checklist_requests, failed_saves, error,
                    last_end, last_failed_saves >>

\* filter_species of either file on every list of stubs and name list
FilterInit ==
    \E at \in { "filter_species", "getter_filter_species" },
       all \in SeqsUpTo(StubChoices, MaxLen), names \in NameListChoices :
        InitCall(at, 1, all, names, << >>, << >>)

FilterNext == FilterSpecies \/ GetterFilterSpecies

FilterSpec == FilterInit /\ [][FilterNext]_vars

\* get_accepted_species on every list of stubs
FetchInit ==
    \E filtered \in SeqsUpTo(StubChoices, MaxLen) :
        InitCall("get_accepted_species", 1, << >>, << >>, filtered, << >>)

FetchSpec == FetchInit /\ [][GetAcceptedSpecies]_vars

\* labels of the table that a detail may report, in any order and number
LabelChoices ==
    { "Not Evaluated (NE)", "Least Concern (LC)", "Vulnerable (VU)",
      "Endangered (EN)", "Extinct (EX)" }

RegionChoices ==
    { << >>, << "Maule Region" >>, << "Bio Bio Region", "Ñuble Region" >>,
      << "Patagonia" >> }

Detail(id, states, region) ==
    [ id |-> id, scientific_name |-> "Nothofagus obliqua", habit |-> "Tree",
      status |-> "Native", conservation_state |-> states, region |-> region ]

DetailChoices ==
    { Detail(1, states, region) :
        states \in SeqsUpTo(LabelChoices, MaxLen), region \in RegionChoices }

\* simplify_data on the empty list, on every single detail, and on lists of the
\* documents of the API
SimplifyInit ==
    \E accepted \in { << d >> : d \in DetailChoices }
                    \cup SeqsUpTo({ DetailOf(1), DetailOf(2), DetailOf(3) }, MaxLen) :
        InitCall("simplify_data", 1, << >>, << >>, << >>, accepted)

SimplifySpec == SimplifyInit /\ [][SimplifyData]_vars


(***************************************************************************)
(* What the claims speak of.                                               *)
(***************************************************************************)
Rank(a) ==
    CASE a = "none" -> 0
      [] a = "all" -> 1
      [] a = "filtered" -> 2
      [] a = "accepted" -> 3
      [] a = "final" -> 4

\* the most advanced artifact present in files, "none" if there is none
MostAdvanced(files) ==
    IF \A a \in Artifacts : ~files[a].exists THEN "none"
    ELSE CHOOSE a \in Artifacts :
            /\ files[a].exists
            /\ \A b \in Artifacts : files[b].exists => Rank(b) <= Rank(a)

\* the stages still to run after resuming from an artifact
StagesAfter(a) ==
    SubSeq(<< "get_all", "filter_species", "get_accepted_species", "simplify_data" >>,
           Rank(a) + 1, 4)

IsPrefix(s, t) == Len(s) <= Len(t) /\ s = SubSeq(t, 1, Len(s))

InMemory == pc \notin { "idle", "probe", "killed", "raised" }

\* C1: a run resumes from the most advanced artifact present at its start:
\* the probe chooses it, its content is what the run holds in memory, the
\* stages up to the one that produced it are not called and send no request,
\* and a run that reaches its end has called every later stage once, in order.
C1_ResumeFromMostAdvanced ==
    resume # "?" =>
        /\ resume = MostAdvanced(start_fs)
        /\ IsPrefix(trace, StagesAfter(resume))
        /\ pc \in { "cleanup", "done" } => trace = StagesAfter(resume)
        /\ resume # "none" => list_log = << >>
        /\ resume \in { "accepted", "final" } => detail_log = << >>
        /\ (InMemory /\ resume = "all" /\ start_fs["all"].whole)
               => herbario_species_all = start_fs["all"].data
        /\ (InMemory /\ resume = "filtered" /\ start_fs["filtered"].whole)
               => herbario_species_filtered = start_fs["filtered"].data
        /\ (InMemory /\ resume = "accepted" /\ start_fs["accepted"].whole)
               => herbario_species_accepted = start_fs["accepted"].data
        /\ (InMemory /\ resume = "final" /\ start_fs["final"].whole)
               => herbario_species = read_csv(start_fs["final"].data)

\* a run that found the all-stubs and the filtered checkpoint, resumed from the
\* filtered one and ran the two stages after it to the end
C1_Witness ==
    /\ pc = "done"
    /\ resume = "filtered"
    /\ start_fs["all"].exists
    /\ trace = << "get_accepted_species", "simplify_data" >>
    /\ detail_log # << >>
    /\ list_log = << >>

\* C2: a run that follows a completed run, with no file deleted in between,
\* issues no network call (list, detail or checklist) and leaves the final
\* table as the first run left it.
C2_SecondRunNoNetwork ==
    (last_end = "done" /\ pc # "idle") =>
        /\ checklist_requests = 0
        /\ list_log = << >>
        /\ detail_log = << >>
        /\ fs["final"] = start_fs["final"]

IsEmptyPage(entry) ==
    \/ entry.kind = "ok_absent"
    \/ entry.kind = "ok" /\ entry.results = << >>

IsDataPage(entry) == entry.kind = "ok" /\ entry.results # << >>

\* pages that carry data, then a page without results
DataThenEmpty(log) ==
    /\ log # << >>
    /\ IsEmptyPage(Last(log))
    /\ \A i \in 1..(Len(log) - 1) : IsDataPage(log[i])

\* the entries of the logged pages, each as {id, scientific_name}, in page order
RECURSIVE LoggedStubs(_)
LoggedStubs(log) ==
    IF log = << >> THEN << >>
    ELSE LoggedStubs(Front(log))
         \o [i \in 1..Len(Last(log).results) |->
                [id |-> Last(log).results[i].id,
                 scientific_name |-> Last(log).results[i].scientific_name]]

\* C3: when the pages from start_at on answer with data and then one answers
\* without results, get_all requests them one by one from start_at upwards,
\* stops after the page without results, and returns the stubs of the data
\* pages in page order.
C3_PaginationTermination ==
    /\ (list_log # << >> /\ DataThenEmpty(list_log))
           => /\ pc \in { "get_all_response", "save_all" }
              /\ \A i \in 1..Len(list_log) : list_log[i].page = start_at + i - 1
    /\ (pc = "get_all_request" /\ \A i \in 1..Len(list_log) : IsDataPage(list_log[i]))
           => species_list = LoggedStubs(list_log)
    /\ (pc = "save_all" /\ DataThenEmpty(list_log))
           => herbario_species_all = LoggedStubs(list_log)

\* pages [a, b], [c], [] from page 1 returned [a, b, c]
C3_Witness ==
    /\ pc = "save_all"
    /\ start_at = 1
    /\ DataThenEmpty(list_log)
    /\ Len(list_log) = 3
    /\ Len(list_log[1].results) = 2
    /\ Len(list_log[2].results) = 1
    /\ Len(herbario_species_all) = 3

\* C4: the file of a save that failed in the run before is not what the next
\* run resumes from.
C4_FailedSaveNotResumed == resume \notin last_failed_saves


\* where pipeline() goes on after the save_temp call it is in
AfterSave(at) ==
    CASE at = "dump_all" -> "get_accepted_names"
      [] at = "dump_filtered" -> "get_accepted_species"
      [] at = "dump_accepted" -> "simplify_data"
      [] OTHER -> "?"

\* C5: a save that fails on its payload does not abort the run: save_temp
\* returns, pipeline() goes on to the stage after the save with the data it
\* holds in memory, and the run ends with the final table written from that
\* data and returned.
C5_SaveFailureDoesNotAbort ==
    /\ [][ (failed_saves' # failed_saves /\ failed_saves' # { })
              => /\ pc' = AfterSave(pc)
                 /\ locals' = locals
                 /\ error' = "" ]_vars
    /\ [] ( (failed_saves # { } /\ Running /\ names_csv.exists)
              => <> ( /\ pc = "done"
                      /\ failed_saves # { }
                      /\ trace = StagesAfter(resume)
                      /\ herbario_species = simplify_data(herbario_species_accepted)
                      /\ fs["final"] = WrittenFile(herbario_species) ) )

\* a run from no checkpoint whose three saves all failed, and which returned
\* the table it wrote
C5_Witness ==
    /\ pc = "done"
    /\ failed_saves = TempArtifacts
    /\ resume = "none"
    /\ herbario_species # << >>
    /\ fs["final"] = WrittenFile(herbario_species)

\* C6: the run after a killed run resumes from an artifact that was fully
\* written, and does not fail on a half-written one.
C6_KilledRunResumes ==
    (last_end = "killed" /\ resume \notin { "?", "none" })
        => /\ start_fs[resume].whole
           /\ error # "load"

\* C7: with the checklist present and the artifacts on disk whole, whatever
\* the API answers, a run that starts ends by returning, the final table
\* written.
C7_RunAlwaysReturns ==
    [] ( ( /\ pc = "probe"
           /\ names_csv.exists
           /\ \A a \in Artifacts : fs[a].exists => fs[a].whole )
         => <> (pc = "done" /\ fs["final"].whole) )

IsBreak(entry) == entry.kind \in { "conn", "decode" }

\* the documents of the requests that were answered with one, in request order
RECURSIVE LoggedDetails(_)
LoggedDetails(log) ==
    IF log = << >> THEN << >>
    ELSE LoggedDetails(Front(log))
         \o (IF Last(log).kind = "ok" THEN << DetailOf(Last(log).id) >> ELSE << >>)

\* C8: get_accepted_species requests the stubs in input order, each at most
\* once; a status that is not ok drops that stub only and the loop goes on to
\* the end of the list; after the first connection or decode failure there is
\* no further request; the result is the documents answered before that, in
\* input order.
C8_DetailFetchPartial ==
    /\ \A i \in 1..Len(detail_log) :
          /\ detail_log[i].pos \in 1..Len(herbario_species_filtered)
          /\ detail_log[i].id = herbario_species_filtered[detail_log[i].pos].id
          /\ i > 1 => detail_log[i - 1].pos < detail_log[i].pos
          /\ i < Len(detail_log) => ~IsBreak(detail_log[i])
    /\ pc = "fetch" => /\ detail_log # << >> => ~IsBreak(Last(detail_log))
                       /\ species_list = LoggedDetails(detail_log)
    /\ pc = "save_accepted" =>
          /\ herbario_species_accepted = LoggedDetails(detail_log)
          /\ (detail_log = << >> \/ ~IsBreak(Last(detail_log)))
                => idx = Len(herbario_species_filtered)

\* three stubs: the first answered not ok, the second with its document, the
\* third with a connection failure
C8_Witness ==
    /\ pc = "save_accepted"
    /\ Len(herbario_species_filtered) = 3
    /\ Len(detail_log) = 3
    /\ detail_log[1].kind = "not_ok"
    /\ detail_log[2].kind = "ok"
    /\ detail_log[3].kind = "conn"
    /\ herbario_species_accepted = << DetailOf(detail_log[2].id) >>

\* the stubs whose name is present and equals an entry of the list, in order
RECURSIVE KeptStubs(_, _)
KeptStubs(stubs, names) ==
    IF stubs = << >> THEN << >>
    ELSE KeptStubs(Front(stubs), names)
         \o (IF /\ Last(stubs).scientific_name # NoName
                /\ \E j \in 1..Len(names) : names[j] = Last(stubs).scientific_name
             THEN << [id |-> Last(stubs).id,
                      scientific_name |-> Last(stubs).scientific_name] >>
             ELSE << >>)

\* C9: filter_species returns the stubs whose scientific_name is present and
\* equals an entry of the accepted names, in input order, duplicates kept,
\* each as {id, scientific_name}.
C9_FilterExact ==
    pc \in { "save_filtered", "getter_save_filtered" }
        => herbario_species_filtered = KeptStubs(herbario_species_all, accepted_names)

InTable(state) == \E i \in 1..Len(conservation_states) : conservation_states[i] = state

\* the reported state that stands last in the table: the most severe one
MostSevere(states) ==
    CHOOSE s \in { states[i] : i \in 1..Len(states) } :
        \A i \in 1..Len(states) : index(states[i]) <= index(s)

\* C10: the conservation_state of a row is the most severe of the states the
\* detail reports, and "Not Evaluated (NE)" when it reports none.
C10_MostSevereState ==
    pc = "to_csv" =>
        \A i \in 1..Len(herbario_species_accepted) :
            LET states == herbario_species_accepted[i].conservation_state
            IN  (\A k \in 1..Len(states) : InTable(states[k]))
                    => herbario_species[i]["conservation_state"] =
                           IF states = << >> THEN "Not Evaluated (NE)"
                           ELSE MostSevere(states)


\* the position of a label in the table, counted from the table itself
TablePosition(state) ==
    CHOOSE i \in 1..Len(conservation_states) : conservation_states[i] = state

\* C11: the conservation_state of a row does not depend on the order of the
\* reported list: it is the reported label that stands first in the table.
C11_SmallestIndexState ==
    pc = "to_csv" =>
        \A i \in 1..Len(herbario_species_accepted) :
            LET states == herbario_species_accepted[i].conservation_state
                chosen == herbario_species[i]["conservation_state"]
            IN  (states # << >> /\ \A k \in 1..Len(states) : InTable(states[k]))
                    => /\ \E k \in 1..Len(states) : states[k] = chosen
                       /\ \A k \in 1..Len(states) :
                              TablePosition(chosen) <= TablePosition(states[k])

\* a detail reporting Endangered before Vulnerable, simplified to Vulnerable
C11_Witness ==
    /\ pc = "to_csv"
    /\ Len(herbario_species_accepted) = 1
    /\ herbario_species_accepted[1].conservation_state
           = << "Endangered (EN)", "Vulnerable (VU)" >>
    /\ herbario_species[1]["conservation_state"] = "Vulnerable (VU)"


\* the column set the table is said to have
FixedColumns ==
    { "id", "scientific_name", "habit", "status", "conservation_state",
      "Araucanía", "Maule", "Atacama", "Antofagasta", "Juan Fernández",
      "Tarapacá", "Metropolitana", "Libertador Bernardo O'Higgins",
      "Arica y Parinacota", "Los Ríos", "Ñuble", "Coquimbo", "Los Lagos",
      "Magallanes", "Bío-Bío", "Valparaíso", "Aysén" }

\* one row per detail, in input order, with the region flags of that detail
RowsFollowInput ==
    /\ Len(herbario_species) = Len(herbario_species_accepted)
    /\ \A i \in 1..Len(herbario_species) :
           LET specie == herbario_species_accepted[i]
               row    == herbario_species[i]
           IN  /\ row["id"] = specie.id
               /\ row["scientific_name"] = specie.scientific_name
               /\ DOMAIN row = FixedColumns
               /\ \A k \in 1..Len(regions) :
                      row[regions[k][2]] =
                          IF \E r \in 1..Len(specie.region) :
                                 specie.region[r] = regions[k][1]
                          THEN 1 ELSE 0

\* C12: for every input, the empty one included, simplify_data gives one row
\* per detail in input order and a table whose column set is the fixed 22
\* columns; a region column is 1 exactly when its raw name is listed.
C12_FixedColumnsEveryInput ==
    pc = "to_csv" =>
        /\ RowsFollowInput
        /\ DataFrame_columns(herbario_species) = FixedColumns


\* C13: a file of data/temp disappears only in the purge of a run started
\* with clean_temp; a run without it returns with every checkpoint it found
\* or wrote; the purge removes every file of data/temp and leaves the final
\* table as it is, and the run that follows a purged run resumes from it.
C13_PurgeOnlyOnRequest ==
    [][ /\ \A a \in TempArtifacts :
               (fs[a].exists /\ ~fs'[a].exists) => (pc = "cleanup" /\ clean_temp)
        /\ fs["final"].exists => fs'["final"].exists
        /\ (pc = "cleanup" /\ pc' = "done") =>
               /\ fs["final"].exists
               /\ fs'["final"] = fs["final"]
               /\ clean_temp => \A a \in TempArtifacts : ~fs'[a].exists
               /\ ~clean_temp =>
                      /\ fs' = fs
                      /\ \A a \in TempArtifacts : start_fs[a].exists => fs'[a].exists
        /\ (pc = "done" /\ pc' = "probe") => start_fs' = fs
        /\ (pc = "probe" /\ last_end = "done" /\ pc' \notin { "probe", "killed" })
               => resume' = "final"
      ]_vars

\* a run from nothing that wrote the three checkpoints and purged them
C13_Witness ==
    /\ pc = "done"
    /\ clean_temp
    /\ resume = "none"
    /\ trace = StagesAfter("none")
    /\ failed_saves = { }
    /\ \A a \in TempArtifacts : ~fs[a].exists
    /\ fs["final"].whole


\* the run stopped in get_accepted_names, before any later stage
StoppedAtNames ==
    /\ pc = "raised"
    /\ resume \in { "none", "all" }
    /\ trace = IF resume = "none" THEN << "get_all" >> ELSE << >>
    /\ detail_log = << >>
    /\ \A a \in { "filtered", "accepted", "final" } : ~fs[a].exists
    /\ fs["all"].exists

\* C14: when data/species_names.csv is missing at the filter stage,
\* get_accepted_names raises to the caller of pipeline(): nothing is
\* filtered, no detail is requested, no filtered or accepted checkpoint and
\* no final table is written, and the all-stubs checkpoint stays.
C14_MissingChecklistRaises ==
    /\ [](error = "names" => StoppedAtNames)
    /\ [][ (pc = "get_accepted_names" /\ ~names_csv.exists /\ pc' # "killed")
               => (error' = "names" /\ pc' = "raised" /\ fs' = fs) ]_vars

\* a run from nothing that saved the stubs and then found no checklist
C14_Witness ==
    /\ error = "names"
    /\ pc = "raised"
    /\ resume = "none"
    /\ list_log # << >>
    /\ fs["all"].whole
    /\ ~names_csv.exists


\* C15: a status other than 200 on page N leaves the page counter at N, and
\* the next request is again for page N.
C15_Non200RepeatsPage ==
    \A i \in 1..(Len(list_log) - 1) :
        list_log[i].kind = "non200" => list_log[i + 1].page = list_log[i].page

\* C15: `continue` returns to the top of the loop, where page += 1 runs: a
\* status other than 200 on page N skips page N, the next request is for page
\* N + 1, and the loop goes on, with no stub taken from page N.
C15_Non200SkipsPage ==
    /\ \A i \in 1..(Len(list_log) - 1) :
           list_log[i].kind = "non200" => list_log[i + 1].page = list_log[i].page + 1
    /\ (list_log # << >> /\ Last(list_log).kind = "non200")
           => /\ pc \in { "get_all_response", "get_all_request" }
              /\ page = Last(list_log).page
              /\ species_list = LoggedStubs(Front(list_log))

\* page 1 answered with a status other than 200, and page 2 was requested
C15_Witness ==
    /\ Len(list_log) >= 2
    /\ list_log[1].kind = "non200"
    /\ list_log[1].page = 1
    /\ list_log[2].page = 2

\* C16: the first connection or JSON-decode failure ends get_all: no request
\* follows it, and the list returned is the stubs of the pages processed
\* before it, in page order.
C16_FailureEndsCollection ==
    /\ \A i \in 1..(Len(list_log) - 1) : list_log[i].kind \notin { "conn", "decode" }
    /\ (list_log # << >> /\ Last(list_log).kind \in { "conn", "decode" })
           => /\ pc \in { "get_all_response", "save_all" }
              /\ species_list = LoggedStubs(Front(list_log))
              /\ pc = "save_all" => herbario_species_all = LoggedStubs(Front(list_log))

\* a page of data, then no connection on page 2: the stubs of page 1 returned
C16_Witness ==
    /\ pc = "save_all"
    /\ Len(list_log) = 2
    /\ IsDataPage(list_log[1])
    /\ list_log[2].kind = "conn"
    /\ herbario_species_all = LoggedStubs(<< list_log[1] >>)
    /\ herbario_species_all # << >>


\* C17: a checkpoint written by a run marks a completed stage: the all-stubs
\* file is written only after the collection reached the end of the dataset,
\* the accepted file only after every filtered stub was gone through; a loop
\* cut short by a connection or decode failure leaves no checkpoint.
C17_CheckpointMarksCompletedStage ==
    /\ (resume = "none" /\ fs["all"].whole)
           => (list_log # << >> /\ ~IsBreak(Last(list_log)))
    /\ (resume \in { "none", "all", "filtered" } /\ fs["accepted"].whole)
           => (detail_log = << >> \/ ~IsBreak(Last(detail_log)))


\* save_temp was called for the artifact and has returned
Saved(a) == fs[a].exists /\ (fs[a].whole \/ a \in failed_saves)

\* where in pipeline() the artifact is written
WrittenAt(a) ==
    IF a = "final" THEN { "to_csv", "to_csv_write" } ELSE { "save_" \o a, "dump_" \o a }

\* C18: a run that found no checkpoint writes all-stubs, filtered, accepted
\* and the final table in that order, each after its stage and before the
\* next stage starts: no detail is requested before the first two are saved,
\* and until the purge a later artifact exists only if every earlier one does.
C18_ArtifactsInOrder ==
    /\ []((resume = "none" /\ ~(pc = "done" /\ clean_temp)) =>
            /\ IsPrefix(trace, StagesAfter("none"))
            /\ \A a, b \in Artifacts :
                   (Rank(a) < Rank(b) /\ fs[b].exists) => fs[a].exists
            /\ Len(trace) >= 2 => Saved("all")
            /\ Len(trace) >= 3 => Saved("filtered")
            /\ Len(trace) >= 4 => Saved("accepted")
            /\ detail_log # << >> => (Saved("all") /\ Saved("filtered")))
    /\ [][ (resume = "none" /\ resume' = "none" /\ pc # "cleanup") =>
             \A a \in Artifacts :
                 fs'[a] # fs[a] =>
                     /\ pc \in WrittenAt(a)
                     /\ \A b \in Artifacts :
                            /\ b # a => fs'[b] = fs[b]
                            /\ Rank(b) < Rank(a) => Saved(b)
                            /\ Rank(b) > Rank(a) => ~fs[b].exists ]_vars

\* a run from nothing at its end, the four artifacts written, details fetched
C18_Witness ==
    /\ pc = "cleanup"
    /\ resume = "none"
    /\ \A a \in Artifacts : fs[a].whole
    /\ list_log # << >>
    /\ detail_log # << >>


\* the requests logged for the stub at position p of the input
RequestsFor(p) == { i \in 1..Len(detail_log) : detail_log[i].pos = p }

\* C19: get_accepted_species skips a stub without a request exactly when its
\* id is absent: every stub gone through that carries an integer id, whatever
\* its value, has exactly one request, and a stub without id has none.
C19_SkippedIffIdAbsent ==
    pc \in { "fetch", "save_accepted" } =>
        \A p \in 1..idx :
            Cardinality(RequestsFor(p)) =
                IF herbario_species_filtered[p].id # NoId THEN 1 ELSE 0


\* C20: within a run an artifact is written at most once and not changed
\* after that, and an artifact that was there when the run started is not
\* written at all; the only change to an existing artifact is the purge of
\* data/temp at the end of a run with clean_temp.
C20_WrittenOnceNeverPatched ==
    [][ \A a \in Artifacts :
            fs'[a] # fs[a] =>
                \/ /\ pc = "cleanup"
                   /\ clean_temp
                   /\ a \in TempArtifacts
                   /\ fs'[a] = NoFile
                \/ /\ ~start_fs[a].exists
                   /\ ~fs[a].exists
                   /\ fs'[a].exists
                   /\ ~fs'[a].whole
                \/ /\ ~start_fs[a].exists
                   /\ fs[a].exists
                   /\ ~fs[a].whole
                   /\ a \notin failed_saves
                   /\ fs'[a] = WrittenFile(fs[a].data)
      ]_vars

\* a run resumed from the all-stubs checkpoint: that file as it was found,
\* the later artifacts written
C20_Witness ==
    /\ pc = "done"
    /\ ~clean_temp
    /\ resume = "all"
    /\ fs["all"] = start_fs["all"]
    /\ fs["all"].whole
    /\ \A a \in { "filtered", "accepted", "final" } : ~start_fs[a].exists /\ fs[a].whole

=============================================================================
